---------------------------- MODULE Spec2Model ----------------------------
(***************************************************************************)
(* Model of HW3b.py: Student-t cumulative probability by trapezoidal       *)
(* integration (gamma_function, calculate_Km, integrand,                   *)
(* calculate_probability, main).                                           *)
(*                                                                         *)
(* Python floats are modelled as binary fixed-point numbers of reduced     *)
(* precision and range, together with the IEEE special values and the     *)
(* exceptions Python raises from float operations:                         *)
(*   [k |-> "fin", v |-> n]   the finite value n / Scale, |n| <= MaxUnits  *)
(*   [k |-> "inf", v |-> 1]   +inf        [k |-> "inf", v |-> -1]   -inf   *)
(*   [k |-> "nan", v |-> 0]   a NaN                                        *)
(*   [k |-> "complex", v |-> 0]  a complex result (negative base raised to *)
(*                               a fractional power)                       *)
(*   [k |-> e, v |-> 0], e \in Exceptions: the evaluation raised e.        *)
(* Every operation is strict in exceptions, left operand first, which is   *)
(* Python's evaluation order.  Signed zeros are not distinguished.         *)
(***************************************************************************)
EXTENDS Integers, Sequences, FiniteSets, TLC

\* Precision and range of the modelled float format.
FracBits == 2
RangeBits == 10

Scale == 2 ^ FracBits
MaxUnits == Scale * (2 ^ RangeBits)

Exceptions == {"ZeroDivisionError", "OverflowError", "ValueError", "TypeError", "EOFError"}

Fin(n) == [k |-> "fin", v |-> n]
NaN == [k |-> "nan", v |-> 0]
PosInf == [k |-> "inf", v |-> 1]
NegInf == [k |-> "inf", v |-> -1]
Complex == [k |-> "complex", v |-> 0]
Raise(e) == [k |-> e, v |-> 0]
FromInt(i) == Fin(i * Scale)
Zero == Fin(0)
One == FromInt(1)
Half == Fin(Scale \div 2)

IsExc(x) == x.k \in Exceptions
IsFin(x) == x.k = "fin"
IsInf(x) == x.k = "inf"
IsNanV(x) == x.k = "nan"
IsCpx(x) == x.k = "complex"

Abs(n) == IF n < 0 THEN -n ELSE n
Sgn(n) == IF n < 0 THEN -1 ELSE IF n > 0 THEN 1 ELSE 0

\* n / d (d > 0) rounded to the nearest integer, ties away from zero.
RoundDiv(n, d) == Sgn(n) * ((2 * Abs(n) + d) \div (2 * d))

\* A finite result that exceeds the range becomes an infinity (+, -, *, /).
Saturate(n) == IF n > MaxUnits THEN PosInf ELSE IF n < -MaxUnits THEN NegInf ELSE Fin(n)

\* The sign of a non-NaN value.
SignOf(x) == IF IsInf(x) THEN x.v ELSE Sgn(x.v)

\* float.__neg__
FNeg(x) ==
  IF IsExc(x) \/ IsNanV(x) \/ IsCpx(x) THEN x
  ELSE IF IsInf(x) THEN [k |-> "inf", v |-> -x.v]
  ELSE Fin(-x.v)

\* float.__add__
FAdd(x, y) ==
  IF IsExc(x) THEN x
  ELSE IF IsExc(y) THEN y
  ELSE IF IsCpx(x) \/ IsCpx(y) THEN Complex
  ELSE IF IsNanV(x) \/ IsNanV(y) THEN NaN
  ELSE IF IsInf(x) /\ IsInf(y) THEN (IF x.v = y.v THEN x ELSE NaN)
  ELSE IF IsInf(x) THEN x
  ELSE IF IsInf(y) THEN y
  ELSE Saturate(x.v + y.v)

\* float.__sub__
FSub(x, y) == FAdd(x, FNeg(y))

\* float.__mul__
FMul(x, y) ==
  IF IsExc(x) THEN x
  ELSE IF IsExc(y) THEN y
  ELSE IF IsCpx(x) \/ IsCpx(y) THEN Complex
  ELSE IF IsNanV(x) \/ IsNanV(y) THEN NaN
  ELSE IF IsInf(x) \/ IsInf(y)
       THEN (IF SignOf(x) * SignOf(y) = 0 THEN NaN
             ELSE [k |-> "inf", v |-> SignOf(x) * SignOf(y)])
  ELSE Saturate(RoundDiv(x.v * y.v, Scale))

\* float.__truediv__: a zero divisor raises, whatever the dividend.
FDiv(x, y) ==
  IF IsExc(x) THEN x
  ELSE IF IsExc(y) THEN y
  ELSE IF IsCpx(x) \/ IsCpx(y) THEN Complex
  ELSE IF IsFin(y) /\ y.v = 0 THEN Raise("ZeroDivisionError")
  ELSE IF IsNanV(x) \/ IsNanV(y) THEN NaN
  ELSE IF IsInf(x) /\ IsInf(y) THEN NaN
  ELSE IF IsInf(x) THEN [k |-> "inf", v |-> x.v * Sgn(y.v)]
  ELSE IF IsInf(y) THEN Zero
  ELSE Saturate(Sgn(y.v) * RoundDiv(x.v * Scale, Abs(y.v)))

\* float.__eq__ as a Boolean (operands are values, not raised exceptions).
FEq(x, y) == ~IsNanV(x) /\ ~IsNanV(y) /\ x = y

\* float.__le__ as a Boolean: every comparison with a NaN is False.
FLe(x, y) ==
  /\ ~IsNanV(x) /\ ~IsNanV(y)
  /\ \/ x = y
     \/ IsInf(x) /\ x.v = -1
     \/ IsInf(y) /\ y.v = 1
     \/ IsFin(x) /\ IsFin(y) /\ x.v <= y.v

\* A NaN test written as a comparison with NaN, which is never true.
isnan_by_comparison(x) == FEq(x, NaN)

\* math.isnan
isnan(x) == IsNanV(x)

\* ------------------------------------------------------------------------
\* Powers, square roots and exponentials.

RECURSIVE ISqrtIn(_, _, _)
\* The largest r in lo..hi with r * r <= n (lo * lo <= n is given).
ISqrtIn(n, lo, hi) ==
  IF lo >= hi THEN lo
  ELSE LET mid == (lo + hi + 1) \div 2
       IN IF mid * mid <= n THEN ISqrtIn(n, mid, hi) ELSE ISqrtIn(n, lo, mid - 1)

\* Square root of a non-negative finite value, rounded down to the format.
FinSqrt(x) == Fin(ISqrtIn(x.v * Scale, 0, MaxUnits))

\* math.sqrt
FSqrt(x) ==
  IF IsExc(x) THEN x
  ELSE IF IsCpx(x) THEN Raise("TypeError")
  ELSE IF IsNanV(x) THEN NaN
  ELSE IF IsInf(x) THEN (IF x.v = 1 THEN PosInf ELSE Raise("ValueError"))
  ELSE IF x.v < 0 THEN Raise("ValueError")
  ELSE FinSqrt(x)

Square(x) == FMul(x, x)

RECURSIVE PowNat(_, _)
\* b ** n for a natural number n, by squaring; an overflow shows as +inf.
PowNat(b, n) ==
  IF n = 0 THEN One
  ELSE IF n % 2 = 0 THEN Square(PowNat(b, n \div 2))
  ELSE FMul(b, PowNat(b, n - 1))

RECURSIVE RootScale(_, _)
\* The Scale-th root of a positive finite value: FracBits square roots.
RootScale(x, i) == IF i = 0 THEN x ELSE RootScale(FinSqrt(x), i - 1)

\* Python's errno check on the result of pow: an overflow raises.
RangeChecked(r) == IF IsInf(r) THEN Raise("OverflowError") ELSE r

\* x ** |y| = r turned into x ** y: an underflow gives 0.0.
PowSigned(r, y) ==
  IF y.v > 0 THEN RangeChecked(r)
  ELSE IF IsInf(r) THEN Zero
  ELSE IF r.v = 0 THEN Raise("OverflowError")
  ELSE RangeChecked(FDiv(One, r))

\* x ** (q / Scale) for a natural number q: whole part times fractional part.
PowUnits(x, q) ==
  FMul(PowNat(x, q \div Scale), PowNat(RootScale(x, FracBits), q % Scale))

\* The C library's pow(x, y) for finite x > 0, x # 1 and finite y # 0, with
\* Python's errno check.
FinPow(x, y) == PowSigned(PowUnits(x, Abs(y.v)), y)

IsOddInteger(y) == IsFin(y) /\ y.v % Scale = 0 /\ (y.v \div Scale) % 2 = 1

\* The power of a negative base, from the power r of its magnitude.
WithSign(r, negative) == IF negative THEN FNeg(r) ELSE r

\* float.__pow__ (float_pow in floatobject.c), the cases in its order.
FPow(x, y) ==
  IF IsExc(x) THEN x
  ELSE IF IsExc(y) THEN y
  ELSE IF IsCpx(x) \/ IsCpx(y) THEN Complex
  ELSE IF IsFin(y) /\ y.v = 0 THEN One
  ELSE IF IsNanV(x) THEN NaN
  ELSE IF IsNanV(y) THEN (IF x = One THEN One ELSE NaN)
  ELSE IF IsInf(y)
       THEN (IF IsFin(x) /\ Abs(x.v) = Scale THEN One
             ELSE IF (y.v > 0) = (IsInf(x) \/ Abs(x.v) > Scale) THEN PosInf
             ELSE Zero)
  ELSE IF IsInf(x)
       THEN (IF y.v > 0 THEN (IF IsOddInteger(y) THEN x ELSE PosInf) ELSE Zero)
  ELSE IF x.v = 0
       THEN (IF y.v < 0 THEN Raise("ZeroDivisionError") ELSE Zero)
  ELSE IF x.v < 0 /\ y.v % Scale # 0 THEN Complex
  ELSE IF Abs(x.v) = Scale
       THEN (IF x.v < 0 /\ IsOddInteger(y) THEN FNeg(One) ELSE One)
  ELSE WithSign(FinPow(Fin(Abs(x.v)), y), x.v < 0 /\ IsOddInteger(y))

\* e and pi in the float format (math.e, math.pi).
MathE == Fin(RoundDiv(2718 * Scale, 1000))
MathPi == Fin(RoundDiv(355 * Scale, 113))

\* math.exp
FExp(x) ==
  IF IsExc(x) THEN x
  ELSE IF IsCpx(x) THEN Raise("TypeError")
  ELSE IF IsNanV(x) THEN NaN
  ELSE IF IsInf(x) THEN (IF x.v = 1 THEN PosInf ELSE Zero)
  ELSE IF x.v = 0 THEN One
  ELSE FinPow(MathE, x)

\* ------------------------------------------------------------------------
\* The program's functions.

\* Number of trapezoid intervals both callers pass.
N_INTERVALS == 1000

\* gamma_function.integrand(t): exp(-t) * t ** (alpha - 1)
gamma_integrand(al, t) == FMul(FExp(FNeg(t)), FPow(t, FSub(al, One)))

RECURSIVE gamma_loop(_, _, _, _, _, _)
\* gamma_function.integrate: for i in range(lo, hi + 1):
\*                               sum_area += integrand(a + i * h)
\* The iterations run in order (the range is split in two only to keep the
\* evaluation shallow), and an exception raised in one ends the loop.
gamma_loop(al, a, h, sum_area, lo, hi) ==
  IF lo > hi THEN sum_area
  ELSE IF lo = hi
       THEN FAdd(sum_area, gamma_integrand(al, FAdd(a, FMul(FromInt(lo), h))))
  ELSE LET mid == (lo + hi) \div 2
           first == gamma_loop(al, a, h, sum_area, lo, mid)
       IN IF IsExc(first) THEN first
          ELSE gamma_loop(al, a, h, first, mid + 1, hi)

\* gamma_function.integrate(a, b, N): the trapezoidal rule.
gamma_integrate(al, a, b, N) ==
  LET h == FDiv(FSub(b, a), FromInt(N))
      sum_area == FMul(Half, FAdd(gamma_integrand(al, a), gamma_integrand(al, b)))
  IN IF IsExc(h) THEN h
     ELSE FMul(h, gamma_loop(al, a, h, sum_area, 1, N - 1))

\* A gamma_function that integrates up to a finite bound instead of infinity.
gamma_function_finite_bound(al) == gamma_integrate(al, Zero, FromInt(8), N_INTERVALS)

\* gamma_function(alpha): integrate(0, float('inf'), 1000)
gamma_function(al) == gamma_integrate(al, Zero, PosInf, N_INTERVALS)

\* integrand(u, m): (1 + u ** 2 / m) ** ((m + 1) / 2)
integrand(u, mm) ==
  FPow(FAdd(One, FDiv(FPow(u, FromInt(2)), mm)), FDiv(FAdd(mm, One), FromInt(2)))

RECURSIVE cdf_loop(_, _, _, _, _, _)
\* calculate_probability.integrate: for i in range(lo, hi + 1):
\*                                      sum_area += integrand(a + i * h, m)
cdf_loop(mm, a, h, sum_area, lo, hi) ==
  IF lo > hi THEN sum_area
  ELSE IF lo = hi
       THEN FAdd(sum_area, integrand(FAdd(a, FMul(FromInt(lo), h)), mm))
  ELSE LET mid == (lo + hi) \div 2
           first == cdf_loop(mm, a, h, sum_area, lo, mid)
       IN IF IsExc(first) THEN first
          ELSE cdf_loop(mm, a, h, first, mid + 1, hi)

\* A trapezoidal rule that gives the two endpoints full weight.
cdf_integrate_full_ends(mm, a, b, N) ==
  LET h == FDiv(FSub(b, a), FromInt(N))
      sum_area == FAdd(integrand(a, mm), integrand(b, mm))
  IN IF IsExc(h) THEN h
     ELSE FMul(h, cdf_loop(mm, a, h, sum_area, 1, N - 1))

\* calculate_probability.integrate(a, b, N): the trapezoidal rule; m is the
\* variable of the enclosing call that the integrand reads.
cdf_integrate(mm, a, b, N) ==
  LET h == FDiv(FSub(b, a), FromInt(N))
      sum_area == FMul(Half, FAdd(integrand(a, mm), integrand(b, mm)))
  IN IF IsExc(h) THEN h
     ELSE FMul(h, cdf_loop(mm, a, h, sum_area, 1, N - 1))

\* A calculate_Km whose zero test is inverted.
Km_result_inverted(num, den) ==
  IF ~FEq(den, Zero) THEN PosInf ELSE FDiv(num, den)

\* calculate_Km, lines 54-57, given both locals.
Km_result(num, den) ==
  IF FEq(den, Zero) THEN PosInf ELSE FDiv(num, den)

\* A try statement without its except clause.
try_probability_uncaught(K, integral) == FMul(K, integral)

\* calculate_probability, lines 110-115: the value bound to probability,
\* given what integrate(-inf, z_value, 1000) returned or raised.
try_probability(K, integral) ==
  LET p == FMul(K, integral)
  IN IF IsExc(p) THEN NaN ELSE p

\* What float(input(...)) gives for a line of input; EOF is the end of the
\* input stream.  Huge stands for a finite float whose square is out of
\* range (1e200 in binary64).
EOF == "<EOF>"
Huge == Fin(MaxUnits)
float_input(line) ==
  CASE line = EOF -> Raise("EOFError")
    [] line = "-3" -> FromInt(-3)
    [] line = "0" -> Zero
    [] line = "3" -> FromInt(3)
    [] line = "1e200" -> Huge
    [] line = "nan" -> NaN
    [] OTHER -> Raise("ValueError")

\* main: degrees_of_freedom_values = [7, 11, 15], and range(3) z values.
degrees_of_freedom_values == <<FromInt(7), FromInt(11), FromInt(15)>>
N_Z_VALUES == 3

\* The lines a user may enter at a prompt.
InputLines == {"-3", "0", "3", "1e200", "nan", "abc", EOF}

\* The arguments a direct caller of calculate_probability passes.
DfArguments ==
  {FromInt(d) : d \in {-2, 0, 1, 2, 3, 4, 7, 11, 15}} \cup {PosInf, NegInf, NaN}
ZArguments == {FromInt(-3), Zero, FromInt(3), Huge, PosInf, NegInf, NaN}

\* gamma_function and the integral of calculate_probability are pure, so
\* their values at the arguments the callers above can pass are computed
\* once and looked up by the steps below.
AllDf == DfArguments \cup {degrees_of_freedom_values[i] : i \in 1 .. Len(degrees_of_freedom_values)}
AllZ == ZArguments \cup {float_input(line) : line \in InputLines}
AllM == {FDiv(df, FromInt(2)) : df \in AllDf}
AllAlpha == {FAdd(FMul(Half, mm), Half) : mm \in AllM} \cup {FMul(Half, mm) : mm \in AllM}
gamma_table == {<<a, gamma_function(a)>> : a \in AllAlpha}
gamma_value(a) == (CHOOSE row \in gamma_table : row[1] = a)[2]

\* calculate_Km, lines 50-57, given what its three calls returned or raised:
\* the first exception, in the order of the calls, leaves the function.
Km_from(num, root, gam) ==
  IF IsExc(num) THEN num
  ELSE IF IsExc(root) THEN root
  ELSE IF IsExc(gam) THEN gam
  ELSE Km_result(num, FMul(root, gam))

\* calculate_Km(m), lines 50-57.
calculate_Km(mm) ==
  Km_from(gamma_value(FAdd(FMul(Half, mm), Half)),
          FSqrt(FMul(mm, MathPi)),
          gamma_value(FMul(Half, mm)))

\* calculate_probability, lines 86-90: a Km with which the call goes on to
\* its try statement.
ReachesTry(K) == ~IsExc(K) /\ ~FEq(K, PosInf)

\* The m with which calculate_probability reaches its try statement.
TryM == {mm \in AllM : ReachesTry(calculate_Km(mm))}
integral_table ==
  {<<mm, z, cdf_integrate(mm, NegInf, z, N_INTERVALS)>> : mm \in TryM, z \in AllZ}
integral_value(mm, z) == (CHOOSE row \in integral_table : row[1] = mm /\ row[2] = z)[3]

\* ------------------------------------------------------------------------
\* State.

\* An unbound local.
None == [k |-> "none", v |-> 0]

\* A line of standard output.
Line(kind, df, z, p) == [kind |-> kind, df |-> df, z |-> z, p |-> p]

VARIABLES
  pc,                  \* position of the caller: main, or a test harness
  z_values,            \* main: the z values read so far
  df_i,                \* main: index of the outer loop, into degrees_of_freedom_values
  z_i,                 \* main: index of the inner loop, into z_values
  calls,               \* main: the calls of calculate_probability made, with their results
  stdout,              \* the lines printed
  cp,                  \* position inside calculate_probability
  degrees_of_freedom,  \* calculate_probability: argument
  z_value,             \* calculate_probability: argument
  m,                   \* calculate_probability: m (also calculate_Km's argument)
  alpha,               \* argument of the latest gamma_function call
  gamma_ret,           \* what the latest gamma_function call returned or raised
  numerator,           \* calculate_Km: numerator
  denominator,         \* calculate_Km: denominator
  Km,                  \* calculate_probability: Km
  result,              \* calculate_probability: result
  caught,              \* calculate_probability: the exception e bound by except
  probability,         \* calculate_probability: probability
  exc,                 \* the exception propagating out of the current call
  prev,                \* harness: the previous completed call
  int_m, int_a, int_b, int_N, int_ret  \* harness: a call of integrate and its result

frame == <<cp, degrees_of_freedom, z_value, m, alpha, gamma_ret, numerator,
           denominator, Km, result, caught, probability, exc>>
driver == <<z_values, df_i, z_i, calls>>
harness == <<prev, int_m, int_a, int_b, int_N, int_ret>>
vars == <<pc, driver, stdout, frame, harness>>

NoCall == [df |-> None, z |-> None, out |-> None]

InitCommon ==
  /\ z_values = <<>> /\ df_i = 1 /\ z_i = 1 /\ calls = <<>>
  /\ stdout = <<>>
  /\ cp = "idle"
  /\ degrees_of_freedom = None /\ z_value = None /\ m = None
  /\ alpha = None /\ gamma_ret = None
  /\ numerator = None /\ denominator = None /\ Km = None
  /\ result = None /\ caught = None /\ probability = None /\ exc = None
  /\ prev = NoCall

NoIntegrate == int_m = None /\ int_a = None /\ int_b = None /\ int_N = 0 /\ int_ret = None

\* ------------------------------------------------------------------------
\* calculate_probability(degrees_of_freedom, z_value), statement by statement.

\* A call binds the arguments; every other local is unbound.
Enter(df, z) ==
  /\ cp' = "enter"
  /\ degrees_of_freedom' = df /\ z_value' = z
  /\ m' = None /\ alpha' = None /\ gamma_ret' = None
  /\ numerator' = None /\ denominator' = None /\ Km' = None
  /\ result' = None /\ caught' = None /\ probability' = None /\ exc' = None

\* Line 85: m = degrees_of_freedom / 2
Line85 ==
  /\ cp = "enter"
  /\ m' = FDiv(degrees_of_freedom, FromInt(2))
  /\ cp' = "Km_numerator"
  /\ UNCHANGED <<degrees_of_freedom, z_value, alpha, gamma_ret, numerator,
                 denominator, Km, result, caught, probability, exc>>
  /\ UNCHANGED <<pc, driver, stdout, harness>>

\* calculate_Km line 50: numerator = gamma_function(0.5 * m + 0.5).  An
\* exception leaves calculate_Km and calculate_probability: neither has a
\* handler around the call.
KmNumerator ==
  /\ cp = "Km_numerator"
  /\ alpha' = FAdd(FMul(Half, m), Half)
  /\ gamma_ret' = gamma_value(alpha')
  /\ IF IsExc(gamma_ret')
     THEN cp' = "raised" /\ exc' = gamma_ret' /\ UNCHANGED numerator
     ELSE cp' = "Km_denominator" /\ numerator' = gamma_ret' /\ UNCHANGED exc
  /\ UNCHANGED <<degrees_of_freedom, z_value, m, denominator, Km, result,
                 caught, probability>>
  /\ UNCHANGED <<pc, driver, stdout, harness>>

\* calculate_Km line 51: denominator = math.sqrt(m * math.pi) * gamma_function(0.5 * m)
KmDenominator ==
  /\ cp = "Km_denominator"
  /\ LET root == FSqrt(FMul(m, MathPi))
     IN IF IsExc(root)
        THEN /\ cp' = "raised" /\ exc' = root
             /\ UNCHANGED <<alpha, gamma_ret, denominator>>
        ELSE /\ alpha' = FMul(Half, m)
             /\ gamma_ret' = gamma_value(alpha')
             /\ IF IsExc(gamma_ret')
                THEN cp' = "raised" /\ exc' = gamma_ret' /\ UNCHANGED denominator
                ELSE /\ cp' = "Km_return"
                     /\ denominator' = FMul(root, gamma_ret')
                     /\ UNCHANGED exc
  /\ UNCHANGED <<degrees_of_freedom, z_value, m, numerator, Km, result,
                 caught, probability>>
  /\ UNCHANGED <<pc, driver, stdout, harness>>

\* calculate_Km lines 54-57 and calculate_probability line 86: Km = calculate_Km(m)
KmReturn ==
  /\ cp = "Km_return"
  /\ Km' = Km_result(numerator, denominator)
  /\ cp' = "check"
  /\ UNCHANGED <<degrees_of_freedom, z_value, m, alpha, gamma_ret, numerator,
                 denominator, result, caught, probability, exc>>
  /\ UNCHANGED <<pc, driver, stdout, harness>>

\* Lines 89-90: if Km == float('inf'): return float('nan')
CheckKm ==
  /\ cp = "check"
  /\ IF FEq(Km, PosInf)
     THEN cp' = "returned" /\ probability' = NaN
     ELSE cp' = "try" /\ UNCHANGED probability
  /\ UNCHANGED <<degrees_of_freedom, z_value, m, alpha, gamma_ret, numerator,
                 denominator, Km, result, caught, exc>>
  /\ UNCHANGED <<pc, driver, stdout, harness>>

\* Lines 110-117: the try statement and the return.
TryIntegrate ==
  /\ cp = "try"
  /\ \E integral \in {integral_value(m, z_value)} :
       \E product \in {FMul(Km, integral)} :
         /\ result' = IF IsExc(integral) THEN None ELSE integral
         /\ caught' = IF IsExc(product) THEN product ELSE None
         /\ stdout' = IF IsExc(product)
                      THEN Append(stdout, Line("Error occurred: e", None, None, product))
                      ELSE stdout
         /\ probability' = try_probability(Km, integral)
  /\ cp' = "returned"
  /\ UNCHANGED <<degrees_of_freedom, z_value, m, alpha, gamma_ret, numerator,
                 denominator, Km, exc>>
  /\ UNCHANGED <<pc, driver, harness>>

Frame == Line85 \/ KmNumerator \/ KmDenominator \/ KmReturn \/ CheckKm \/ TryIntegrate

\* ------------------------------------------------------------------------
\* main()

\* Lines 126-128: z_value = float(input(...)); z_values.append(z_value)
ReadZ ==
  /\ pc = "input"
  /\ \E line \in InputLines :
       LET value == float_input(line)
       IN IF IsExc(value)
          THEN pc' = "raised" /\ exc' = value /\ UNCHANGED z_values
          ELSE /\ z_values' = Append(z_values, value)
               /\ pc' = IF Len(z_values') = N_Z_VALUES THEN "df_loop" ELSE "input"
               /\ UNCHANGED exc
  /\ UNCHANGED <<df_i, z_i, calls, stdout, harness>>
  /\ UNCHANGED <<cp, degrees_of_freedom, z_value, m, alpha, gamma_ret, numerator,
                 denominator, Km, result, caught, probability>>

\* Lines 134-135: the next df, and its heading.
NextDf ==
  /\ pc = "df_loop"
  /\ df_i <= Len(degrees_of_freedom_values)
  /\ stdout' = Append(stdout, Line("Degrees of Freedom", degrees_of_freedom_values[df_i], None, None))
  /\ z_i' = 1
  /\ pc' = "z_loop"
  /\ UNCHANGED <<z_values, df_i, calls, frame, harness>>

\* Line 137: the call probability = calculate_probability(df, z)
CallProbability ==
  /\ pc = "z_loop"
  /\ z_i <= Len(z_values)
  /\ Enter(degrees_of_freedom_values[df_i], z_values[z_i])
  /\ calls' = Append(calls, [df |-> degrees_of_freedom_values[df_i],
                              z |-> z_values[z_i], out |-> None])
  /\ pc' = "call"
  /\ UNCHANGED <<z_values, df_i, z_i, stdout, harness>>

\* Lines 137-141: the call has ended; an exception leaves main, a result is
\* printed as an error line or as a probability line.
PrintResult ==
  /\ pc = "call"
  /\ cp \in {"returned", "raised"}
  /\ IF cp = "raised" \/ IsCpx(probability)
     THEN /\ pc' = "raised"
          /\ exc' = IF cp = "raised" THEN exc ELSE Raise("TypeError")
          /\ UNCHANGED <<calls, stdout, z_i>>
     ELSE /\ calls' = [calls EXCEPT ![Len(calls)].out = probability]
          /\ stdout' = Append(stdout,
                 IF isnan(probability)
                 THEN Line("Error occurred for z", None, z_values[z_i], None)
                 ELSE Line("Probability for z", None, z_values[z_i], probability))
          /\ z_i' = z_i + 1
          /\ pc' = "z_loop"
          /\ UNCHANGED exc
  /\ cp' = "idle"
  /\ UNCHANGED <<z_values, df_i, harness>>
  /\ UNCHANGED <<degrees_of_freedom, z_value, m, alpha, gamma_ret, numerator,
                 denominator, Km, result, caught, probability>>

\* Line 136: the inner loop is exhausted.
EndZLoop ==
  /\ pc = "z_loop"
  /\ z_i > Len(z_values)
  /\ df_i' = df_i + 1
  /\ pc' = "df_loop"
  /\ UNCHANGED <<z_values, z_i, calls, stdout, frame, harness>>

\* Line 134: the outer loop is exhausted; main returns.
Finish ==
  /\ pc = "df_loop"
  /\ df_i > Len(degrees_of_freedom_values)
  /\ pc' = "done"
  /\ UNCHANGED <<driver, stdout, frame, harness>>

Init == pc = "input" /\ InitCommon /\ NoIntegrate

Next == ReadZ \/ NextDf \/ CallProbability \/ Frame \/ PrintResult \/ EndZLoop \/ Finish

Spec == Init /\ [][Next]_vars

\* The program is one sequential thread: it takes its next step whenever it
\* has one.
LiveSpec == Spec /\ WF_vars(Next)

\* ------------------------------------------------------------------------
\* calculate_probability called directly, with arguments of the caller's
\* choice; the previous completed call is kept for comparison.

HarnessCall ==
  /\ pc = "harness"
  /\ cp = "idle"
  /\ \E df \in DfArguments, z \in ZArguments : Enter(df, z)
  /\ stdout' = <<>>
  /\ UNCHANGED <<pc, driver, harness>>

HarnessReturn ==
  /\ pc = "harness"
  /\ cp \in {"returned", "raised"}
  /\ prev' = [df |-> degrees_of_freedom, z |-> z_value,
              out |-> IF cp = "raised" THEN exc ELSE probability]
  /\ cp' = "idle"
  /\ UNCHANGED <<pc, driver, stdout, int_m, int_a, int_b, int_N, int_ret>>
  /\ UNCHANGED <<degrees_of_freedom, z_value, m, alpha, gamma_ret, numerator,
                 denominator, Km, result, caught, probability, exc>>

InitProb == pc = "harness" /\ InitCommon /\ NoIntegrate

NextProb == HarnessCall \/ Frame \/ HarnessReturn

SpecProb == InitProb /\ [][NextProb]_vars

\* ------------------------------------------------------------------------
\* calculate_probability's integrate(a, b, N) called directly.  With m = -1
\* the integrand is (1 - u ** 2) ** 0.0, the constant function 1.

MaxN == 6

FiniteBounds == {Fin(n) : n \in {-3 * Scale, -Scale, -1, 0, 1, Scale, 2 * Scale, 5 * Scale}}
ClosureM == {FromInt(-1), FromInt(2)}

InitIntegrate ==
  /\ pc = "integrate"
  /\ InitCommon
  /\ int_m \in ClosureM
  /\ int_a \in FiniteBounds /\ int_b \in FiniteBounds /\ FLe(int_a, int_b)
  /\ int_N \in 1 .. MaxN
  /\ int_ret = None

ApplyIntegrate ==
  /\ pc = "integrate"
  /\ int_ret' = cdf_integrate(int_m, int_a, int_b, int_N)
  /\ pc' = "integrated"
  /\ UNCHANGED <<driver, stdout, frame, prev, int_m, int_a, int_b, int_N>>

NextIntegrate == ApplyIntegrate

SpecIntegrate == InitIntegrate /\ [][NextIntegrate]_vars

\* ------------------------------------------------------------------------
\* Properties.

\* C1: no exception crosses the boundary of calculate_probability: every
\* call returns a float, also when the failure arises inside calculate_Km
\* or gamma_function.
C1_NoExceptionEscapes == cp # "raised"

\* C3: an exception raised while the try statement evaluates the integral
\* (or the product with Km) is caught, and the call returns NaN.
C3_IntegralExceptionCaught ==
  (/\ cp = "returned"
   /\ Km # None /\ ~FEq(Km, PosInf)
   /\ IsExc(FMul(Km, integral_value(m, z_value))))
  => (IsNanV(probability) /\ exc = None /\ caught = FMul(Km, integral_value(m, z_value)))

C3_Witness ==
  /\ cp = "returned"
  /\ caught = Raise("OverflowError")
  /\ IsNanV(probability)
  /\ stdout # <<>>

\* The points at which integrate(0, inf, 1000) samples the kernel are 0 and
\* inf (a + i * h is inf); the kernel is not finite at one of them.
KernelNotFinite(al) == \E t \in {Zero, PosInf} : ~IsFin(gamma_integrand(al, t))

\* C4: gamma_function returns nan or inf rather than raising whenever its
\* kernel is not finite at a sampled point, the left endpoint t = 0 with
\* alpha < 1 included.
C4_GammaReturnsNonFinite ==
  (gamma_ret # None /\ KernelNotFinite(alpha)) => gamma_ret \in {NaN, PosInf, NegInf}

\* C5: calculate_Km returns +inf when its denominator
\* sqrt(m * pi) * gamma_function(0.5 * m) is exactly 0.0, and otherwise
\* numerator / denominator with numerator = gamma_function(0.5 * m + 0.5).
C5_KmSentinelOrQuotient ==
  Km # None =>
    /\ numerator = gamma_value(FAdd(FMul(Half, m), Half))
    /\ denominator = FMul(FSqrt(FMul(m, MathPi)), gamma_value(FMul(Half, m)))
    /\ FEq(denominator, Zero) => Km = PosInf
    /\ ~FEq(denominator, Zero) => Km = FDiv(numerator, denominator)

C5_Witness ==
  /\ cp = "check"
  /\ ~FEq(denominator, Zero)
  /\ numerator # None /\ denominator # None
  /\ Km = FDiv(numerator, denominator)

\* The lines main prints for the results of its calls.
IsResultLine(line) == line.kind \in {"Error occurred for z", "Probability for z"}
ResultLines == SelectSeq(stdout, IsResultLine)
Completed == {i \in 1 .. Len(calls) : calls[i].out # None}

C6_Safe ==
  /\ pc = "raised" => Len(z_values) < N_Z_VALUES
  /\ Len(calls) <= Len(degrees_of_freedom_values) * N_Z_VALUES
  /\ \A i \in 1 .. Len(calls) :
       /\ calls[i].df = degrees_of_freedom_values[((i - 1) \div N_Z_VALUES) + 1]
       /\ calls[i].z = z_values[((i - 1) % N_Z_VALUES) + 1]
  /\ Len(ResultLines) = Cardinality(Completed)
  /\ \A i \in 1 .. Len(ResultLines) :
       /\ i \in Completed
       /\ ResultLines[i].z = calls[i].z
       /\ (ResultLines[i].kind = "Error occurred for z") <=> IsNanV(calls[i].out)
       /\ (ResultLines[i].kind = "Probability for z") => ResultLines[i].p = calls[i].out
  /\ pc = "done" =>
       /\ Len(calls) = Len(degrees_of_freedom_values) * N_Z_VALUES
       /\ Completed = 1 .. Len(calls)

\* C6: for df = 7, 11, 15 in that order and, within each, the three entered
\* z values in entry order, main calls calculate_probability exactly once,
\* prints the error line for the pair if and only if the result is NaN and
\* the probability line otherwise, and once the three values are entered it
\* terminates without raising.
C6_DriverCallsAndPrints ==
  []C6_Safe /\ ((Len(z_values) = N_Z_VALUES) ~> (pc = "done"))

C6_Witness ==
  /\ pc = "done"
  /\ Len(calls) = 9
  /\ Len(ResultLines) = 9
  /\ \E i \in 1 .. 3 : z_values[i] = Huge
  /\ \A i \in 1 .. 9 : IsNanV(calls[i].out) /\ ResultLines[i].kind = "Error occurred for z"

C8_KmPositiveFinite ==
  (Km # None /\ IsFin(m) /\ m.v > 0) => (IsFin(Km) /\ Km.v > 0)

\* C9: for a fixed degrees_of_freedom, calculate_probability is
\* non-decreasing in z_value: z1 <= z2 implies p(df, z1) <= p(df, z2).
C9_MonotoneInZ ==
  (/\ cp = "returned"
   /\ prev.df = degrees_of_freedom
   /\ prev.out # None /\ ~IsExc(prev.out)
   /\ FLe(prev.z, z_value))
  => FLe(prev.out, probability)

\* C10: calculate_probability never returns a finite number: both
\* integrations have an infinite bound, so the step h is infinite or NaN,
\* gamma_function returns NaN or an infinity or raises, and every call of
\* calculate_probability returns NaN or raises.
C10_NeverFinite ==
  /\ ~IsFin(FDiv(FSub(PosInf, Zero), FromInt(N_INTERVALS)))
  /\ ~IsFin(gamma_ret)
  /\ cp \in {"try", "returned"} =>
       ~IsFin(FDiv(FSub(z_value, NegInf), FromInt(N_INTERVALS)))
  /\ cp = "returned" => IsNanV(probability)

C10_Witness ==
  /\ cp = "returned"
  /\ IsFin(degrees_of_freedom) /\ IsFin(z_value)
  /\ gamma_ret = NaN
  /\ result = NaN
  /\ IsNanV(probability)

=============================================================================
